---------------------------- MODULE Spec2Model ----------------------------
(***************************************************************************)
(* A model of legacy/mqtt_client.py (class MqttClient): the connection     *)
(* lifecycle, the supervisor thread, the callback worker pool and the      *)
(* transport driver seen through the calls the client makes on it and the  *)
(* events it delivers to the client.                                       *)
(*                                                                         *)
(* Threads of control: the caller threads (each runs one public method at  *)
(* a time, pc[c] is its position), the supervisor threads (sup[t]), the    *)
(* callback workers (wk[w]) and the driver's network loop (the Driver*     *)
(* actions, enabled only while the loop is started).                       *)
(*                                                                         *)
(* Time is abstracted: a timed wait may time out whenever what it waits    *)
(* for has not happened; a bounded join() times out only on a thread that  *)
(* is inside a call of unbounded duration (a user callback, a transport    *)
(* reconnect), because every other position of a worker or supervisor      *)
(* reaches its exit check in less than the join timeout.                   *)
(***************************************************************************)
EXTENDS Integers, Sequences, FiniteSets, TLC

\* ------------------------------------------------------------ bounds
\* API calls one behaviour makes (all callers together).
MaxOps == 3
\* Largest callback_queue_max_size tried (0 is Python's "unbounded").
QueueMax == 2
\* Messages the driver delivers in one behaviour.
MaxMsgs == 3
\* Messages the broker sends in the behaviours about the lifecycle.
FewMsgs == 1
\* API calls one behaviour makes in the behaviours about the callback queue.
PoolOps == 2
\* Largest max_retries argument tried.
MaxRetries == 2
\* Error callback invocations counted (the counter stops there).
MaxErrCalls == 2
\* Largest value of the supervisor's backoff attempt counter (it stops there).
MaxAttempt == 2
\* Largest enable_history(max_size) argument tried.
MaxHist == 2
\* Delays are counted in parts of a second: Unit parts make one second.
Unit == 2
\* The largest min_delay and max_delay tried, in parts of a second.
MaxDelay == 4
\* The largest step tried, in parts of a second.
MaxStep == 2
\* Consecutive next_delay() calls without a reset().
MaxCalls == 8
\* The largest finite float (sys.float_info.max), scaled down so that the
\* growth of base ** attempt and of the Fibonacci pair reaches it within
\* MaxCalls calls.
FloatMax == 20
\* History entries appended in one behaviour: one more than fills a buffer twice over.
MaxEntries == MaxHist + 2

\* ------------------------------------------------- program constants
\* callback_worker_count, as given to the constructor.
WorkerCount == 2
\* self._history_max_size after construction.
DefaultHistoryMax == 100

Callers == {1, 2}
SupIds == 1..(MaxOps + 1)
WorkerIds == 1..((MaxOps + 1) * WorkerCount)
\* The queue holds message ids 1..MaxMsgs and the poison pill None.
Pill == 0

VARIABLES
    running,         \* self._running
    isConnected,     \* self._is_connected
    connectEvent,    \* self._connect_event.is_set()
    supEnabled,      \* self._supervisor_enabled
    supThread,       \* self._supervisor_thread (0: None, else a thread id)
    supStopEvent,    \* self._supervisor_stop_event.is_set()
    workerRunning,   \* self._callback_worker_running
    workers,         \* self._callback_workers (the thread handles held)
    queue,           \* self._callback_queue
    maxsize,         \* self._callback_queue_max_size
    recordHistory,   \* self._record_history
    historyMaxSize,  \* self._history_max_size
    errHist,         \* self._history["errors"]
    sup,             \* position of each supervisor thread
    wk,              \* position of each callback worker thread
    wkTask,          \* the task a worker is executing (0: none)
    drv,             \* driver session: "idle", "pending" (CONNECT sent), "up"
    loopOn,          \* the driver's network loop thread is started
    drvAccept,       \* the broker/driver lets connect attempts succeed
    pc,              \* position of each caller thread
    op,              \* the public method a caller is executing, with its arguments
    res,             \* the MqttResult message of the caller's last return
    attempt,         \* _connect_internal's local attempt counter
    calls,           \* driver connect() calls made by the caller's current method
    budget,          \* API calls left
    pills,           \* _stop_callback_workers: poison pills still to put
    joinLeft,        \* _stop_callback_workers: workers still to join
    nextMsg,         \* id of the next message the driver delivers
    invoked,         \* per message: how many times its callback was invoked
    dropped,         \* messages dropped by _on_message
    timedOut,        \* threads a bounded join() gave up on (inside a callback or a reconnect)
    msgLimit,        \* messages the broker sends in this behaviour
    errCalls,        \* invocations of the error callback (_invoke_error_callback)
    boAttempt,       \* self._supervisor_backoff.attempt
    recorded,        \* per caller: a history entry was appended since its method began
    sent,            \* per caller: a driver publish/subscribe/unsubscribe call was made since its method began
    lastMid,         \* the message id the driver issued last
    atStop,          \* the tasks queued or executing when stop() was last called
    histIns,         \* entries appended to the history so far (the id of the last one)
    histCut,         \* entries the last enable_history() discarded from the buffer
    bo,              \* a Backoff object: its parameters, attempt and Fibonacci pair
    delay,           \* the value its last next_delay() returned
    boRaised         \* its last next_delay() raised OverflowError

clientVars == <<running, isConnected, connectEvent>>
supVars == <<supEnabled, supThread, supStopEvent, sup>>
poolVars == <<workerRunning, workers, queue, wk, wkTask>>
histVars == <<recordHistory, historyMaxSize, errHist>>
drvVars == <<drv, loopOn, drvAccept>>
callVars == <<pc, op, res, attempt, calls, budget, pills, joinLeft>>
msgVars == <<nextMsg, invoked, dropped>>
pureVars == <<histIns, histCut, bo, delay, boRaised>>
vars == <<clientVars, supVars, poolVars, histVars, drvVars, callVars, msgVars,
          maxsize, timedOut, msgLimit,
          errCalls, boAttempt, recorded, sent, lastMid, atStop, pureVars>>

\* --------------------------------------------------------- helpers
Min(a, b) == IF a < b THEN a ELSE b

\* No Backoff object has been constructed.
NoBackoff == [strategy |-> "none"]

NoOp == [name |-> "none", retry |-> FALSE, max |-> 0, auto |-> FALSE]

\* MqttResult(ok=..., message=...)
MqttResult(ok, message) == [ok |-> ok, message |-> message, mid |-> 0]
NoResult == MqttResult(TRUE, "")

\* A buffer that drops the new entry when it is full.
DequeAppendKeepOldest(d, n, x) ==
    IF Len(d) >= n THEN d ELSE Append(d, x)

\* collections.deque(maxlen=n).append(x)
DequeAppend(d, n, x) ==
    IF n = 0 THEN d
    ELSE IF Len(d) >= n THEN Append(Tail(d), x)
    ELSE Append(d, x)

\* MqttClient._add_history on a category other than "errors": an entry is
\* appended when recording is enabled.
AddHistory ==
    recorded' = IF recordHistory THEN [c \in Callers |-> TRUE] ELSE recorded

\* A recorder that ignores the enable flag.
AddErrAlways(x) ==
    /\ errHist' = DequeAppend(errHist, historyMaxSize, x)
    /\ recorded' = [c \in Callers |-> TRUE]

\* MqttClient._add_history("errors", ...)
AddErr(x) ==
    /\ errHist' = IF recordHistory THEN DequeAppend(errHist, historyMaxSize, x)
                  ELSE errHist
    /\ AddHistory

\* A client that swallows the error instead of reporting it.
InvokeNothing == errCalls' = errCalls

\* MqttClient._invoke_error_callback
InvokeErrorCallback == errCalls' = Min(errCalls + 1, MaxErrCalls)

\* Backoff.reset and Backoff.next_delay on self._supervisor_backoff
BackoffReset == boAttempt' = 0
BackoffNextDelay == boAttempt' = Min(boAttempt + 1, MaxAttempt)

\* A queue that refuses one item too late.
QueueFullLate == maxsize > 0 /\ Len(queue) > maxsize

\* queue.Queue: full() as put()/put_nowait() test it; maxsize <= 0 is unbounded.
QueueFull == maxsize > 0 /\ Len(queue) >= maxsize

SupAlive(t) == t # 0 /\ sup[t] \in {"wait", "chk", "call"}
WkAlive(w) == wk[w] \in {"idle", "call"}

\* threading.Thread(...).start(): the next unused thread id.
NewSup == Cardinality({t \in SupIds : sup[t] # "none"}) + 1
NewWorkers ==
    LET n == Cardinality({w \in WorkerIds : wk[w] # "none"})
    IN  (n + 1)..(n + WorkerCount)

\* ------------------------------------------------- shared sub-steps
\* A caller may enter a public method: it is not inside one.
CanCall(c) == pc[c] \in {"idle", "done"} /\ budget > 0

Enter(c, o) ==
    /\ op' = [op EXCEPT ![c] = o]
    /\ budget' = budget - 1
    /\ calls' = [calls EXCEPT ![c] = 0]
    /\ recorded' = [recorded EXCEPT ![c] = FALSE]
    /\ sent' = [sent EXCEPT ![c] = FALSE]

\* The method returns r to its caller.
Return(c, r) ==
    /\ pc' = [pc EXCEPT ![c] = "done"]
    /\ res' = [res EXCEPT ![c] = r]
    /\ attempt' = [attempt EXCEPT ![c] = 0]

\* MqttClient._start_supervisor_thread
StartSupervisorThread ==
    IF supThread = 0 \/ ~SupAlive(supThread)
    THEN /\ supStopEvent' = FALSE
         /\ supThread' = NewSup
         /\ sup' = [sup EXCEPT ![NewSup] = "wait"]
    ELSE UNCHANGED <<supThread, supStopEvent, sup>>

\* MqttClient._start_callback_workers
StartCallbackWorkers ==
    IF workerRunning
    THEN UNCHANGED <<workerRunning, workers, wk>>
    ELSE /\ workerRunning' = TRUE
         /\ wk' = [w \in WorkerIds |-> IF w \in NewWorkers THEN "idle" ELSE wk[w]]
         /\ workers' = workers \cup NewWorkers

\* start() after _connect_internal has returned result r: the supervisor is
\* started only when the result is ok.
StartArmsSupervisor(r) == r.ok /\ supEnabled

\* An operation that goes on to the driver call whatever its reconnect returned.
ReconnectIgnored(r) == TRUE

\* `if not reconnect_result.ok: return ...` in publish / subscribe / unsubscribe.
ReconnectOk(r) == r.ok

\* _connect_internal returns r; start() then starts the supervisor thread; an
\* operation that reconnected on its own goes on to the driver call when r is
\* ok and returns "Auto-reconnect failed" otherwise.
ConnectReturns(c, r) ==
    /\ IF op[c].auto
       THEN IF ReconnectOk(r)
            THEN /\ pc' = [pc EXCEPT ![c] = "send"]
                 /\ attempt' = [attempt EXCEPT ![c] = 0]
                 /\ UNCHANGED res
            ELSE Return(c, MqttResult(FALSE, "Auto-reconnect failed"))
       ELSE Return(c, r)
    /\ IF op[c].name = "start" /\ StartArmsSupervisor(r)
       THEN StartSupervisorThread
       ELSE UNCHANGED <<supThread, supStopEvent, sup>>

\* A retry loop that allows one attempt more.
RetriesExhaustedLate(c) == op[c].max > 0 /\ attempt[c] > op[c].max

\* if max_retries > 0 and attempt >= max_retries
RetriesExhausted(c) == op[c].max > 0 /\ attempt[c] >= op[c].max

\* _connect_internal, the exit conditions after a failed attempt (lines 711-722).
RetryOrReturn(c, lastError) ==
    IF ~op[c].retry THEN ConnectReturns(c, MqttResult(FALSE, lastError))
    ELSE IF ~running
    THEN ConnectReturns(c, MqttResult(FALSE, "Stopped during connection retry"))
    ELSE IF RetriesExhausted(c)
    THEN ConnectReturns(c, MqttResult(FALSE, "Max retries exceeded"))
    ELSE /\ pc' = [pc EXCEPT ![c] = "ci_sleep"]
         /\ UNCHANGED <<res, attempt, supThread, supStopEvent, sup>>

\* ------------------------------------------------ _connect_internal
\* attempt += 1; self._connect_event.clear(); the thread enters the driver's
\* connect().
ConnectAttempt(c) ==
    /\ pc[c] \in {"ci_begin", "ci_sleep"}
    /\ attempt' = [attempt EXCEPT ![c] = Min(attempt[c] + 1, MaxRetries + 1)]
    /\ calls' = [calls EXCEPT ![c] = Min(calls[c] + 1, MaxRetries + 1)]
    /\ connectEvent' = FALSE
    /\ pc' = [pc EXCEPT ![c] = "ci_call"]
    /\ UNCHANGED <<running, isConnected, supVars, poolVars, histVars, drvVars,
                   op, res, budget, pills, joinLeft, msgVars, maxsize, timedOut, msgLimit, pureVars, atStop, lastMid, sent,
                   errCalls, boAttempt, recorded>>

\* The driver's connect() returns, and loop_start() is called, or it raises.
\* A driver that accepts never raises; one that does not may raise or may
\* send CONNECT and have it rejected or left unanswered.
ConnectCallEnds(c) ==
    /\ pc[c] = "ci_call"
    /\ \E raised \in (IF drvAccept THEN {FALSE} ELSE BOOLEAN) :
        IF raised
        THEN /\ AddErr("connect")
             /\ RetryOrReturn(c, "Connection error")
             /\ UNCHANGED <<drv, loopOn>>
        ELSE /\ drv' = "pending"
             /\ loopOn' = TRUE
             /\ pc' = [pc EXCEPT ![c] = "ci_wait"]
             /\ UNCHANGED <<res, attempt, supThread, supStopEvent, sup, errHist,
                            recorded>>
    /\ UNCHANGED <<clientVars, supEnabled, poolVars, recordHistory, historyMaxSize,
                   drvAccept, op, calls, budget, pills, joinLeft, msgVars, maxsize,
                   timedOut, msgLimit, pureVars, atStop, lastMid, sent,
                   errCalls, boAttempt>>

\* self._connect_event.wait(timeout) returns: set, or timed out.
ConnectWaitEnds(c) ==
    /\ pc[c] = "ci_wait"
    /\ IF connectEvent
       THEN IF isConnected
            THEN ConnectReturns(c, MqttResult(TRUE, "Connected"))
            ELSE RetryOrReturn(c, "Connection rejected by broker")
       ELSE RetryOrReturn(c, "Connection timeout")
    /\ UNCHANGED <<clientVars, supEnabled, poolVars, histVars, drvVars,
                   op, calls, budget, pills, joinLeft, msgVars, maxsize, timedOut, msgLimit, pureVars, atStop, lastMid, sent,
                   errCalls, boAttempt, recorded>>

\* ------------------------------------------------------------ start
\* A start() that never finds the client running.
NeverRunning == FALSE

\* start(): if self._running, under the lock.
AlreadyRunning == running

CallStart(c, retry, max) ==
    /\ CanCall(c)
    /\ Enter(c, [name |-> "start", retry |-> retry, max |-> max, auto |-> FALSE])
    /\ IF AlreadyRunning
       THEN /\ Return(c, MqttResult(TRUE, "Already running"))
            /\ UNCHANGED <<running, connectEvent, workerRunning, workers, wk>>
       ELSE /\ running' = TRUE
            /\ connectEvent' = FALSE
            /\ StartCallbackWorkers
            /\ pc' = [pc EXCEPT ![c] = "ci_begin"]
            /\ UNCHANGED <<res, attempt>>
    /\ UNCHANGED <<isConnected, supVars, queue, wkTask, histVars, drvVars,
                   pills, joinLeft, msgVars, maxsize, timedOut, msgLimit, pureVars, atStop, lastMid,
                   errCalls, boAttempt>>

\* ------------------------------------- stop / _stop_supervisor_thread
CallStop(c) ==
    /\ CanCall(c)
    /\ Enter(c, [name |-> "stop", retry |-> FALSE, max |-> 0, auto |-> FALSE])
    /\ IF ~running
       THEN /\ Return(c, MqttResult(TRUE, "Already stopped"))
            /\ UNCHANGED <<running, atStop>>
       ELSE /\ running' = FALSE
            /\ atStop' = {queue[i] : i \in 1..Len(queue)} \ {Pill}
            /\ pc' = [pc EXCEPT ![c] = "sup_stop"]
            /\ UNCHANGED <<res, attempt>>
    /\ UNCHANGED <<isConnected, connectEvent, supVars, poolVars, histVars, drvVars,
                   pills, joinLeft, msgVars, maxsize, timedOut, msgLimit, pureVars, lastMid,
                   errCalls, boAttempt>>

\* What follows _stop_supervisor_thread: stop() goes on to disconnect,
\* disable_supervisor() returns.
AfterSupervisorStop(c) ==
    IF op[c].name = "stop"
    THEN /\ pc' = [pc EXCEPT ![c] = "disc"]
         /\ UNCHANGED <<res, attempt>>
    ELSE Return(c, NoResult)

\* _stop_supervisor_thread, up to the join: the stop event is set when the
\* thread is alive, else the handle is dropped.
StopSupervisorThread(c) ==
    /\ pc[c] = "sup_stop"
    /\ IF SupAlive(supThread)
       THEN /\ supStopEvent' = TRUE
            /\ pc' = [pc EXCEPT ![c] = "sup_join"]
            /\ UNCHANGED <<supThread, res, attempt>>
       ELSE /\ supThread' = 0
            /\ AfterSupervisorStop(c)
            /\ UNCHANGED supStopEvent
    /\ UNCHANGED <<clientVars, supEnabled, sup, poolVars, histVars, drvVars,
                   op, calls, budget, pills, joinLeft, msgVars, maxsize, timedOut, msgLimit, pureVars, atStop, lastMid, sent,
                   errCalls, boAttempt, recorded>>

\* join(timeout=interval + 1.0) gives up on a supervisor thread that is alive:
\* one inside the driver's reconnect().
SupJoinTimesOut(t) == SupAlive(t) /\ sup[t] = "call"

\* join(timeout=interval + 1.0) returns: the thread has ended, or the join
\* gave up.
SupJoinReturns(t) == ~SupAlive(t) \/ SupJoinTimesOut(t)

\* join(timeout) returns; self._supervisor_thread = None.
JoinSupervisorThread(c) ==
    /\ pc[c] = "sup_join"
    /\ SupJoinReturns(supThread)
    /\ timedOut' = IF SupJoinTimesOut(supThread)
                   THEN [timedOut EXCEPT !.sup = @ \cup {supThread}]
                   ELSE timedOut
    /\ supThread' = 0
    /\ AfterSupervisorStop(c)
    /\ UNCHANGED <<clientVars, supEnabled, supStopEvent, sup, poolVars, histVars,
                   drvVars, op, calls, budget, pills, joinLeft, msgVars, maxsize, msgLimit, pureVars, atStop, lastMid, sent,
                   errCalls, boAttempt, recorded>>

\* ---------------------------------------------- _disconnect_internal
\* stop_loop, as each caller of _disconnect_internal passes it.
StopLoop(c) == op[c].name \in {"stop", "reconnect"} \/ op[c].auto

\* What the try block does when no driver call raises.
DisconnectOk(c) ==
    /\ drv' = "idle"
    /\ loopOn' = IF StopLoop(c) THEN FALSE ELSE loopOn
    /\ isConnected' = FALSE
    /\ connectEvent' = FALSE
    /\ UNCHANGED <<errHist, recorded>>

\* The except block: the error is recorded; the connection state is kept.
DisconnectRaised ==
    /\ AddErr("disconnect")
    /\ UNCHANGED <<drv, loopOn, isConnected, connectEvent>>

\* _disconnect_internal as stop(), disconnect() and reconnect() call it, and
\* where each goes on with its result.
DisconnectInternal(c) ==
    /\ pc[c] = "disc"
    /\ \E raised \in BOOLEAN :
        LET r == IF raised THEN MqttResult(FALSE, "Disconnect error")
                 ELSE MqttResult(TRUE, "Disconnected")
        IN  /\ IF raised THEN DisconnectRaised ELSE DisconnectOk(c)
            /\ IF op[c].name = "stop"
               THEN /\ pc' = [pc EXCEPT ![c] = "stop_workers"]
                    /\ res' = [res EXCEPT ![c] = r]
                    /\ UNCHANGED attempt
               ELSE IF op[c].name = "reconnect" \/ op[c].auto
               THEN /\ pc' = [pc EXCEPT ![c] = "ci_begin"]
                    /\ UNCHANGED <<res, attempt>>
               ELSE Return(c, r)
    /\ UNCHANGED <<running, supVars, poolVars, recordHistory, historyMaxSize,
                   drvAccept, op, calls, budget, pills, joinLeft, msgVars, maxsize,
                   timedOut, msgLimit, pureVars, atStop, lastMid, sent,
                   errCalls, boAttempt>>

\* ---------------------------------------------- _stop_callback_workers
\* stop() returns: "Stopped successfully" when the disconnect was ok, else
\* the disconnect's result.
StopReturns(c) ==
    Return(c, IF res[c].ok THEN MqttResult(TRUE, "Stopped successfully") ELSE res[c])

\* self._callback_worker_running = False; the loops over self._callback_workers
\* are entered.
StopCallbackWorkers(c) ==
    /\ pc[c] = "stop_workers"
    /\ workerRunning' = FALSE
    /\ pills' = [pills EXCEPT ![c] = Cardinality(workers)]
    /\ joinLeft' = [joinLeft EXCEPT ![c] = workers]
    /\ pc' = [pc EXCEPT ![c] = "stop_pool"]
    /\ UNCHANGED <<clientVars, supVars, workers, queue, wk, wkTask, histVars, drvVars,
                   op, res, attempt, calls, budget, msgVars, maxsize, timedOut, msgLimit, pureVars, atStop, lastMid, sent,
                   errCalls, boAttempt, recorded>>

\* self._callback_queue.put(None): blocks while the queue is full.
PutPill(c) ==
    /\ pc[c] = "stop_pool"
    /\ pills[c] > 0
    /\ ~QueueFull
    /\ queue' = Append(queue, Pill)
    /\ pills' = [pills EXCEPT ![c] = @ - 1]
    /\ UNCHANGED <<clientVars, supVars, workerRunning, workers, wk, wkTask, histVars,
                   drvVars, pc, op, res, attempt, calls, budget, joinLeft, msgVars,
                   maxsize, timedOut, msgLimit, pureVars, atStop, lastMid, sent,
                   errCalls, boAttempt, recorded>>

\* t.join(timeout=2.0) gives up on a worker that is alive: one inside a
\* user callback.
WorkerJoinTimesOut(w) == wk[w] = "call"

\* A join(timeout=0) in place of the bounded join: it never waits.
WorkerJoinNoWait(w) == TRUE

\* t.join(timeout=2.0) returns: the worker has ended, or the join gave up.
WorkerJoinReturns(w) == ~WkAlive(w) \/ WorkerJoinTimesOut(w)

\* t.join(timeout=2.0) on the next worker of the list returns.
JoinWorker(c) ==
    /\ pc[c] = "stop_pool"
    /\ pills[c] = 0
    /\ joinLeft[c] # {}
    /\ LET w == CHOOSE x \in joinLeft[c] : \A y \in joinLeft[c] : x <= y
       IN  /\ WorkerJoinReturns(w)
           /\ timedOut' = IF WorkerJoinTimesOut(w)
                          THEN [timedOut EXCEPT !.wk = @ \cup {w}]
                          ELSE timedOut
           /\ joinLeft' = [joinLeft EXCEPT ![c] = @ \ {w}]
    /\ UNCHANGED <<clientVars, supVars, poolVars, histVars, drvVars, pc, op, res,
                   attempt, calls, budget, pills, msgVars, maxsize, msgLimit, pureVars, atStop, lastMid, sent,
                   errCalls, boAttempt, recorded>>

\* self._callback_workers.clear(); stop() returns.
ClearWorkers(c) ==
    /\ pc[c] = "stop_pool"
    /\ pills[c] = 0
    /\ joinLeft[c] = {}
    /\ workers' = {}
    /\ StopReturns(c)
    /\ UNCHANGED <<clientVars, supVars, workerRunning, queue, wk, wkTask, histVars,
                   drvVars, op, calls, budget, pills, joinLeft, msgVars, maxsize,
                   timedOut, msgLimit, pureVars, atStop, lastMid, sent,
                   errCalls, boAttempt, recorded>>

\* ----------------------------------- connect / disconnect / reconnect
\* A connect() that never finds the client connected.
NeverConnected == FALSE

\* connect(): if self._is_connected, under the lock.
AlreadyConnected == isConnected

CallConnect(c, retry, max) ==
    /\ CanCall(c)
    /\ Enter(c, [name |-> "connect", retry |-> retry, max |-> max, auto |-> FALSE])
    /\ IF AlreadyConnected
       THEN /\ Return(c, MqttResult(TRUE, "Already connected"))
            /\ UNCHANGED running
       ELSE /\ running' = TRUE
            /\ pc' = [pc EXCEPT ![c] = "ci_begin"]
            /\ UNCHANGED <<res, attempt>>
    /\ UNCHANGED <<isConnected, connectEvent, supVars, poolVars, histVars, drvVars,
                   pills, joinLeft, msgVars, maxsize, timedOut, msgLimit, pureVars, atStop, lastMid,
                   errCalls, boAttempt>>

CallDisconnect(c) ==
    /\ CanCall(c)
    /\ Enter(c, [name |-> "disconnect", retry |-> FALSE, max |-> 0, auto |-> FALSE])
    /\ IF ~isConnected
       THEN Return(c, MqttResult(TRUE, "Not connected"))
       ELSE /\ pc' = [pc EXCEPT ![c] = "disc"]
            /\ UNCHANGED <<res, attempt>>
    /\ UNCHANGED <<clientVars, supVars, poolVars, histVars, drvVars,
                   pills, joinLeft, msgVars, maxsize, timedOut, msgLimit, pureVars, atStop, lastMid,
                   errCalls, boAttempt>>

CallReconnect(c) ==
    /\ CanCall(c)
    /\ Enter(c, [name |-> "reconnect", retry |-> FALSE, max |-> 0, auto |-> FALSE])
    /\ pc' = [pc EXCEPT ![c] = "disc"]
    /\ UNCHANGED <<res, attempt, clientVars, supVars, poolVars, histVars, drvVars,
                   pills, joinLeft, msgVars, maxsize, timedOut, msgLimit, pureVars, atStop, lastMid,
                   errCalls, boAttempt>>

\* ------------------------------ enable_supervisor / disable_supervisor
CallEnableSupervisor(c) ==
    /\ CanCall(c)
    /\ Enter(c, [name |-> "enable_supervisor", retry |-> FALSE, max |-> 0, auto |-> FALSE])
    /\ supEnabled' = TRUE
    /\ BackoffReset
    /\ IF running THEN StartSupervisorThread
       ELSE UNCHANGED <<supThread, supStopEvent, sup>>
    /\ Return(c, NoResult)
    /\ UNCHANGED <<clientVars, poolVars, histVars, drvVars, pills, joinLeft, msgVars,
                   maxsize, timedOut, msgLimit, pureVars, atStop, lastMid,
                   errCalls>>

CallDisableSupervisor(c) ==
    /\ CanCall(c)
    /\ Enter(c, [name |-> "disable_supervisor", retry |-> FALSE, max |-> 0, auto |-> FALSE])
    /\ supEnabled' = FALSE
    /\ pc' = [pc EXCEPT ![c] = "sup_stop"]
    /\ UNCHANGED <<res, attempt, clientVars, supThread, supStopEvent, sup, poolVars,
                   histVars, drvVars, pills, joinLeft, msgVars, maxsize, timedOut, msgLimit, pureVars, atStop, lastMid,
                   errCalls, boAttempt>>

\* ---------------------------------------- enable_history / disable_history
\* A buffer rebuilt from its oldest entries.
RecreatedOldest(d, n) == SubSeq(d, 1, Min(Len(d), n))

\* deque(self._history[key], maxlen=max_size): the entries are appended one
\* by one to a buffer of the new capacity, which keeps the last max_size.
Recreated(d, n) == SubSeq(d, Len(d) - Min(Len(d), n) + 1, Len(d))

CallEnableHistory(c, max_size) ==
    /\ CanCall(c)
    /\ Enter(c, [name |-> "enable_history", retry |-> FALSE, max |-> 0, auto |-> FALSE])
    /\ recordHistory' = TRUE
    /\ historyMaxSize' = max_size
    /\ errHist' = IF historyMaxSize # max_size
                  THEN Recreated(errHist, max_size)
                  ELSE errHist
    /\ histCut' = Len(errHist) - Len(errHist')
    /\ Return(c, NoResult)
    /\ UNCHANGED <<clientVars, supVars, poolVars, drvVars, pills, joinLeft, msgVars,
                   maxsize, timedOut, msgLimit, histIns, bo, delay, boRaised, atStop,
                   lastMid, errCalls, boAttempt>>

\* ------------------------------------- publish / subscribe / unsubscribe
PubSubKinds == {"publish", "subscribe", "unsubscribe"}

\* MqttResult(ok=True, rc=..., mid=mid)
MqttResultMid(mid) == [ok |-> TRUE, message |-> "", mid |-> mid]

\* A failure result that carries no message.
NoMessage(kind) == ""

\* The message of the result returned for a non-success return code.
FailedMessage(kind) ==
    CASE kind = "publish" -> "Publish failed"
      [] kind = "subscribe" -> "Subscribe failed"
      [] OTHER -> "Unsubscribe failed"

\* An auto-reconnect that is attempted whatever the flag says.
NeedsReconnectAlways(auto_reconnect) == ~isConnected

\* `if not self._is_connected: if auto_reconnect:` the operation reconnects first.
NeedsReconnect(auto_reconnect) == ~isConnected /\ auto_reconnect

\* The head of publish(), subscribe() and unsubscribe(): the connected flag is
\* read (without the lock); a disconnected client reconnects when
\* auto_reconnect is set and returns "Not connected" otherwise.
CallPubSub(c, kind, auto_reconnect) ==
    /\ CanCall(c)
    /\ Enter(c, [name |-> kind, retry |-> FALSE, max |-> 0, auto |-> auto_reconnect])
    /\ IF isConnected
       THEN /\ pc' = [pc EXCEPT ![c] = "send"]
            /\ UNCHANGED <<res, attempt>>
       ELSE IF NeedsReconnect(auto_reconnect)
       THEN /\ pc' = [pc EXCEPT ![c] = "disc"]
            /\ UNCHANGED <<res, attempt>>
       ELSE Return(c, MqttResult(FALSE, "Not connected"))
    /\ UNCHANGED <<clientVars, supVars, poolVars, histVars, drvVars, pills, joinLeft,
                   msgVars, maxsize, timedOut, msgLimit, pureVars, atStop, lastMid,
                   errCalls, boAttempt>>

\* What the driver's publish(), subscribe() or unsubscribe() may answer: a
\* success code needs a session; a failure code or an exception is always
\* possible.
DriverVerdicts == IF drv = "up" THEN {"success", "rc", "raise"} ELSE {"rc", "raise"}

\* The try block of publish(), subscribe() and unsubscribe(): the driver call
\* and the three ways it ends.
PubSubSend(c) ==
    /\ pc[c] = "send"
    /\ sent' = [sent EXCEPT ![c] = TRUE]
    /\ \E verdict \in DriverVerdicts :
        CASE verdict = "success" ->
                /\ lastMid' = lastMid + 1
                /\ AddHistory
                /\ Return(c, MqttResultMid(lastMid + 1))
                /\ UNCHANGED errHist
          [] verdict = "rc" ->
                /\ Return(c, MqttResult(FALSE, FailedMessage(op[c].name)))
                /\ UNCHANGED <<lastMid, errHist, recorded>>
          [] OTHER ->
                /\ AddErr(op[c].name)
                /\ Return(c, MqttResult(FALSE, "Driver error"))
                /\ UNCHANGED lastMid
    /\ UNCHANGED <<clientVars, supVars, poolVars, recordHistory, historyMaxSize,
                   drvVars, op, calls, budget, pills, joinLeft, msgVars, maxsize,
                   timedOut, msgLimit, pureVars, atStop, errCalls, boAttempt>>

\* disable_history(): recording stops, the buffers keep their entries.
CallDisableHistory(c) ==
    /\ CanCall(c)
    /\ Enter(c, [name |-> "disable_history", retry |-> FALSE, max |-> 0, auto |-> FALSE])
    /\ recordHistory' = FALSE
    /\ Return(c, NoResult)
    /\ UNCHANGED <<clientVars, supVars, poolVars, historyMaxSize, errHist, drvVars,
                   pills, joinLeft, msgVars, maxsize, timedOut, msgLimit, pureVars,
                   atStop, lastMid, errCalls, boAttempt>>

\* clear_history(): every buffer is emptied.
CallClearHistory(c) ==
    /\ CanCall(c)
    /\ Enter(c, [name |-> "clear_history", retry |-> FALSE, max |-> 0, auto |-> FALSE])
    /\ errHist' = <<>>
    /\ Return(c, NoResult)
    /\ UNCHANGED <<clientVars, supVars, poolVars, recordHistory, historyMaxSize, drvVars,
                   pills, joinLeft, msgVars, maxsize, timedOut, msgLimit, pureVars,
                   atStop, lastMid, errCalls, boAttempt>>

\* _add_history(category, data) as an operation calls it, with an entry that
\* differs from every earlier one (its timestamp); the entry is numbered when
\* recording is enabled.
AddHistoryEntry ==
    /\ histIns < MaxEntries
    /\ AddErr(histIns + 1)
    /\ histIns' = IF recordHistory THEN histIns + 1 ELSE histIns
    /\ UNCHANGED <<clientVars, supVars, poolVars, recordHistory, historyMaxSize, drvVars,
                   callVars, msgVars, maxsize, timedOut, msgLimit, histCut, bo, delay,
                   boRaised, atStop, lastMid, sent, errCalls, boAttempt>>

\* ------------------------------------------------------------ Backoff
\* The variables of the client, which a Backoff object does not touch.
clientState == <<clientVars, supVars, poolVars, histVars, drvVars, callVars, msgVars,
                 maxsize, timedOut, msgLimit, errCalls, boAttempt, recorded, sent,
                 lastMid, atStop, histIns, histCut>>

\* class BackoffStrategy
Strategies == {"constant", "linear", "polynomial", "exponential", "fibonacci", "random"}

\* create_backoff(strategy, min_delay, max_delay, jitter, **kwargs): kw is the
\* keyword argument of the strategy (step, exponent or base); the other two
\* keep their defaults. attempt = 0 and the Fibonacci pair is (0, 1).
Backoff(strategy, min_delay, max_delay, jitter, kw) ==
    [strategy |-> strategy, min_delay |-> min_delay, max_delay |-> max_delay,
     jitter |-> jitter,
     step |-> IF strategy = "linear" THEN kw ELSE Unit,
     exponent |-> IF strategy = "polynomial" THEN kw ELSE 2,
     base |-> IF strategy = "exponential" THEN kw ELSE 2,
     attempt |-> 0, fib_prev |-> 0, fib_curr |-> 1]

\* The keyword values tried for each strategy: step >= 0, exponent >= 0,
\* base >= 1.
Keywords(strategy) ==
    CASE strategy = "linear" -> 0..MaxStep
      [] strategy = "polynomial" -> 0..2
      [] strategy = "exponential" -> 1..3
      [] OTHER -> {0}

\* Backoff.reset alone, which leaves the Fibonacci pair where it is.
ResetAttemptOnly(b) == [b EXCEPT !.attempt = 0]

\* Backoff.reset, and FibonacciBackoff.reset which also reseeds the pair.
Reset(b) == [b EXCEPT !.attempt = 0, !.fib_prev = 0, !.fib_curr = 1]

\* _calculate_delay raises OverflowError: base ** attempt leaves the float
\* range, or the Fibonacci number is too large to convert to float for the
\* product with min_delay.
Overflows(b) ==
    CASE b.strategy = "exponential" -> b.base ^ b.attempt > FloatMax
      [] b.strategy = "fibonacci" -> b.fib_curr > FloatMax
      [] OTHER -> FALSE

\* The values _calculate_delay may return; a set, for random.uniform.
CalculateDelay(b) ==
    CASE b.strategy = "constant" -> {b.min_delay}
      [] b.strategy = "linear" -> {b.min_delay + b.attempt * b.step}
      [] b.strategy = "polynomial" -> {b.min_delay * (b.attempt + 1) ^ b.exponent}
      [] b.strategy = "exponential" -> {b.min_delay * b.base ^ b.attempt}
      [] b.strategy = "fibonacci" -> {b.min_delay * b.fib_curr}
      [] OTHER -> Min(b.min_delay, b.max_delay)..(IF b.min_delay > b.max_delay
                                                   THEN b.min_delay ELSE b.max_delay)

\* A jitter that draws below the clamped delay plus one second.
JitterWide(d) == {Unit * n : n \in 0..(d \div Unit + 1)}

\* random.randint(0, int(delay)): a whole number of seconds.
Jitter(d) == {Unit * n : n \in 0..(d \div Unit)}

\* The values next_delay may return for the computed delay raw.
Returned(b, raw) ==
    LET d == Min(raw, b.max_delay)
    IN  IF b.jitter /\ d > 0 THEN Jitter(d) ELSE {d}

\* A Fibonacci pair that swaps without adding.
AdvancedSwap(b) ==
    IF b.strategy = "fibonacci"
    THEN [b EXCEPT !.attempt = b.attempt + 1,
                   !.fib_prev = b.fib_curr, !.fib_curr = b.fib_prev]
    ELSE [b EXCEPT !.attempt = b.attempt + 1]

\* The state _calculate_delay and `self.attempt += 1` leave behind.
Advanced(b) ==
    IF b.strategy = "fibonacci"
    THEN [b EXCEPT !.attempt = b.attempt + 1,
                   !.fib_prev = b.fib_curr, !.fib_curr = b.fib_prev + b.fib_curr]
    ELSE [b EXCEPT !.attempt = b.attempt + 1]

\* create_backoff(...)
CreateBackoff ==
    /\ bo = NoBackoff
    /\ \E strategy \in Strategies, min_delay \in 0..MaxDelay, max_delay \in 0..MaxDelay,
          jitter \in BOOLEAN :
        \E kw \in Keywords(strategy) :
            bo' = Backoff(strategy, min_delay, max_delay, jitter, kw)
    /\ UNCHANGED <<clientState, delay, boRaised>>

\* Backoff.next_delay(): the delay is computed, clamped and jittered, then
\* attempt is incremented; an OverflowError of _calculate_delay propagates
\* and leaves the object as it was.
CallNextDelay ==
    /\ bo # NoBackoff
    /\ bo.attempt < MaxCalls
    /\ IF Overflows(bo)
       THEN /\ boRaised' = TRUE
            /\ UNCHANGED <<bo, delay>>
       ELSE /\ \E raw \in CalculateDelay(bo) : delay' \in Returned(bo, raw)
            /\ bo' = Advanced(bo)
            /\ boRaised' = FALSE
    /\ UNCHANGED clientState

\* Backoff.reset()
CallReset ==
    /\ bo # NoBackoff
    /\ bo' = Reset(bo)
    /\ boRaised' = FALSE
    /\ UNCHANGED <<clientState, delay>>

\* ------------------------------------------------- _supervisor_loop
\* The loop is modelled by three positions: "wait" (the loop condition and
\* the two stop-event waits, which differ only in their length), "chk" (the
\* re-check after the wake-up and the read of the connected flag) and "call"
\* (inside the driver's reconnect()).

\* self._supervisor_stop_event.wait(...) returns True: break.
SupStopped(t) ==
    /\ sup[t] = "wait"
    /\ supStopEvent
    /\ sup' = [sup EXCEPT ![t] = "dead"]
    /\ UNCHANGED <<clientVars, supEnabled, supThread, supStopEvent, poolVars, histVars,
                   drvVars, callVars, msgVars, maxsize, timedOut, msgLimit, pureVars, atStop, lastMid, sent,
                   errCalls, boAttempt, recorded>>

\* The wait times out.
SupWake(t) ==
    /\ sup[t] = "wait"
    /\ ~supStopEvent
    /\ sup' = [sup EXCEPT ![t] = "chk"]
    /\ UNCHANGED <<clientVars, supEnabled, supThread, supStopEvent, poolVars, histVars,
                   drvVars, callVars, msgVars, maxsize, timedOut, msgLimit, pureVars, atStop, lastMid, sent,
                   errCalls, boAttempt, recorded>>

\* Lines 552-565: break, continue, or enter the driver's reconnect().
SupCheck(t) ==
    /\ sup[t] = "chk"
    /\ sup' = [sup EXCEPT ![t] =
                 IF ~running \/ ~supEnabled THEN "dead"
                 ELSE IF isConnected THEN "wait"
                 ELSE "call"]
    /\ IF running /\ supEnabled /\ isConnected
       THEN BackoffReset
       ELSE UNCHANGED boAttempt
    /\ UNCHANGED <<clientVars, supEnabled, supThread, supStopEvent, poolVars, histVars,
                   drvVars, callVars, msgVars, maxsize, timedOut, msgLimit, pureVars, atStop, lastMid, sent,
                   errCalls, recorded>>

\* The driver's reconnect() returns (CONNECT is sent on a fresh socket) or
\* raises (recorded; the loop backs off).
SupReconnectEnds(t) ==
    /\ sup[t] = "call"
    /\ \E raised \in (IF drvAccept THEN {FALSE} ELSE BOOLEAN) :
        IF raised
        THEN /\ AddErr("reconnect_failed")
             /\ InvokeErrorCallback
             /\ BackoffNextDelay
             /\ UNCHANGED drv
        ELSE /\ drv' = "pending"
             /\ BackoffReset
             /\ UNCHANGED <<errHist, recorded, errCalls>>
    /\ sup' = [sup EXCEPT ![t] = "wait"]
    /\ UNCHANGED <<clientVars, supEnabled, supThread, supStopEvent, poolVars,
                   recordHistory, historyMaxSize, loopOn, drvAccept, callVars, msgVars,
                   maxsize, timedOut, msgLimit, pureVars, atStop, lastMid, sent>>

\* --------------------------------------------- _callback_worker_loop
\* "idle" stands for the loop condition and the timed get(); "call" for the
\* user callback.

\* while self._callback_worker_running: false, the thread ends.
WorkerExit(w) ==
    /\ wk[w] = "idle"
    /\ ~workerRunning
    /\ wk' = [wk EXCEPT ![w] = "dead"]
    /\ UNCHANGED <<clientVars, supVars, workerRunning, workers, queue, wkTask, histVars,
                   drvVars, callVars, msgVars, maxsize, timedOut, msgLimit, pureVars, atStop, lastMid, sent,
                   errCalls, boAttempt, recorded>>

\* item = self._callback_queue.get(timeout=1.0): None breaks, a task is called.
WorkerGet(w) ==
    /\ wk[w] = "idle"
    /\ queue # <<>>
    /\ queue' = Tail(queue)
    /\ IF Head(queue) = Pill
       THEN /\ wk' = [wk EXCEPT ![w] = "dead"]
            /\ UNCHANGED <<wkTask, invoked>>
       ELSE /\ wk' = [wk EXCEPT ![w] = "call"]
            /\ wkTask' = [wkTask EXCEPT ![w] = Head(queue)]
            /\ invoked' = [invoked EXCEPT ![Head(queue)] = @ + 1]
    /\ UNCHANGED <<clientVars, supVars, workerRunning, workers, histVars, drvVars,
                   callVars, nextMsg, dropped, maxsize, timedOut, msgLimit, pureVars, atStop, lastMid, sent,
                   errCalls, boAttempt, recorded>>

\* item = self._callback_queue.get(timeout=1.0) on an empty queue: the wait
\* expires, queue.Empty is raised inside the try block and caught by
\* `except Exception` like a fault of a user callback: the error callback is
\* invoked while the pool is running, and the loop goes round. The step
\* changes nothing but the count of error callback invocations.
WorkerGetTimesOut(w) ==
    /\ wk[w] = "idle"
    /\ queue = <<>>
    /\ IF workerRunning
       THEN InvokeErrorCallback
       ELSE UNCHANGED errCalls
    /\ UNCHANGED <<clientVars, supVars, poolVars, histVars, drvVars, callVars, msgVars,
                   maxsize, timedOut, msgLimit, pureVars, atStop, lastMid, sent,
                   boAttempt, recorded>>

\* callback(*args) returns, or raises and the error callback is invoked; the
\* loop goes round.
WorkerCallbackEnds(w) ==
    /\ wk[w] = "call"
    /\ wk' = [wk EXCEPT ![w] = "idle"]
    /\ wkTask' = [wkTask EXCEPT ![w] = 0]
    /\ \E raised \in BOOLEAN :
        IF raised /\ workerRunning
        THEN InvokeErrorCallback
        ELSE UNCHANGED errCalls
    /\ UNCHANGED <<clientVars, supVars, workerRunning, workers, queue, histVars,
                   drvVars, callVars, msgVars, maxsize, timedOut, msgLimit, pureVars, atStop, lastMid, sent,
                   boAttempt, recorded>>

\* --------------------------------- events of the driver's network loop
\* _on_connect: CONNACK, accepted or refused (reason_code.is_failure); a
\* "connect" history entry; the user's callback returns, or raises and an
\* "errors" entry is added.
DriverConnack ==
    /\ loopOn
    /\ drv = "pending"
    /\ drv' = IF drvAccept THEN "up" ELSE "idle"
    /\ isConnected' = drvAccept
    /\ connectEvent' = TRUE
    /\ AddHistory
    /\ \E raised \in BOOLEAN :
        IF raised THEN AddErr("on_connect") ELSE UNCHANGED errHist
    /\ UNCHANGED <<running, supVars, poolVars, recordHistory, historyMaxSize, loopOn, drvAccept, callVars,
                   msgVars, maxsize, timedOut, msgLimit, pureVars, atStop, lastMid, sent,
                   errCalls, boAttempt>>

\* _on_disconnect: the session is lost; a "disconnect" history entry; the
\* user's callback returns, or raises and an "errors" entry is added.
DriverDisconnect ==
    /\ loopOn
    /\ drv = "up"
    /\ drv' = "idle"
    /\ isConnected' = FALSE
    /\ connectEvent' = FALSE
    /\ AddHistory
    /\ \E raised \in BOOLEAN :
        IF raised THEN AddErr("on_disconnect") ELSE UNCHANGED errHist
    /\ UNCHANGED <<running, supVars, poolVars, recordHistory, historyMaxSize, loopOn, drvAccept, callVars,
                   msgVars, maxsize, timedOut, msgLimit, pureVars, atStop, lastMid, sent,
                   errCalls, boAttempt>>

\* _on_message: put_nowait, or Full and the message is dropped and recorded.
OnMessage ==
    /\ loopOn
    /\ drv = "up"
    /\ nextMsg <= msgLimit
    /\ nextMsg' = nextMsg + 1
    /\ IF QueueFull
       THEN /\ dropped' = dropped + 1
            /\ AddErr("queue_full")
            /\ UNCHANGED queue
       ELSE /\ queue' = Append(queue, nextMsg)
            /\ UNCHANGED <<dropped, errHist, recorded>>
    /\ UNCHANGED <<clientVars, supVars, workerRunning, workers, wk, wkTask,
                   recordHistory, historyMaxSize, drvVars, callVars, invoked, maxsize,
                   timedOut, msgLimit, pureVars, atStop, lastMid, sent,
                   errCalls, boAttempt>>

\* The broker starts or stops accepting connections.
DriverPolicy ==
    /\ drvAccept' = ~drvAccept
    /\ UNCHANGED <<clientVars, supVars, poolVars, histVars, drv, loopOn, callVars,
                   msgVars, maxsize, timedOut, msgLimit, pureVars, atStop, lastMid, sent,
                   errCalls, boAttempt, recorded>>

\* ------------------------------------------------ specifications
RetryArgs == {<<FALSE, 0>>} \cup {<<TRUE, n>> : n \in 0..MaxRetries}

\* Steps of a caller inside a method: _connect_internal, _stop_supervisor_thread
\* and _stop_callback_workers (_disconnect_internal is one step).
ConnectStep(c) == ConnectAttempt(c) \/ ConnectCallEnds(c) \/ ConnectWaitEnds(c)

SupStopStep(c) == StopSupervisorThread(c) \/ JoinSupervisorThread(c)

PoolStopStep(c) ==
    StopCallbackWorkers(c) \/ PutPill(c) \/ JoinWorker(c) \/ ClearWorkers(c)

\* A supervisor thread's steps while nobody has set its stop event, and all
\* its steps.
SupRun(t) == SupWake(t) \/ SupCheck(t) \/ SupReconnectEnds(t)

SupStep(t) == SupStopped(t) \/ SupRun(t)

\* A worker's steps that change the pool: leaving, taking an item, finishing a
\* callback. WorkerLoop adds the expiry of the timed get(), which changes only
\* the count of error callback invocations.
WorkerStep(w) == WorkerExit(w) \/ WorkerGet(w) \/ WorkerCallbackEnds(w)

WorkerLoop(w) == WorkerStep(w) \/ WorkerGetTimesOut(w)

\* The initial state with the parameters each specification fixes: the API
\* calls allowed, the queue capacities tried and the broker's first mood.
InitWith(ops, sizes, moods, msgs) ==
    /\ running = FALSE /\ isConnected = FALSE /\ connectEvent = FALSE
    /\ supEnabled = FALSE /\ supThread = 0 /\ supStopEvent = FALSE
    /\ workerRunning = FALSE /\ workers = {} /\ queue = <<>>
    /\ maxsize \in sizes
    /\ recordHistory = FALSE /\ historyMaxSize = DefaultHistoryMax /\ errHist = <<>>
    /\ sup = [t \in SupIds |-> "none"]
    /\ wk = [w \in WorkerIds |-> "none"]
    /\ wkTask = [w \in WorkerIds |-> 0]
    /\ drv = "idle" /\ loopOn = FALSE /\ drvAccept \in moods
    /\ pc = [c \in Callers |-> "idle"]
    /\ op = [c \in Callers |-> NoOp]
    /\ res = [c \in Callers |-> NoResult]
    /\ attempt = [c \in Callers |-> 0]
    /\ calls = [c \in Callers |-> 0]
    /\ pills = [c \in Callers |-> 0]
    /\ joinLeft = [c \in Callers |-> {}]
    /\ budget = ops
    /\ nextMsg = 1
    /\ msgLimit = msgs
    /\ invoked = [m \in 1..MaxMsgs |-> 0]
    /\ dropped = 0
    /\ timedOut = [sup |-> {}, wk |-> {}]
    /\ errCalls = 0
    /\ boAttempt = 0
    /\ recorded = [c \in Callers |-> FALSE]
    /\ sent = [c \in Callers |-> FALSE]
    /\ lastMid = 0
    /\ atStop = {}
    /\ histIns = 0
    /\ histCut = 0
    /\ bo = NoBackoff
    /\ delay = 0
    /\ boRaised = FALSE

\* One caller thread: supervisor, start, stop; the broker accepts, drops the
\* session and delivers messages.
NextStop ==
    \/ CallEnableSupervisor(1)
    \/ CallStart(1, FALSE, 0)
    \/ CallStop(1)
    \/ ConnectStep(1) \/ SupStopStep(1) \/ DisconnectInternal(1) \/ PoolStopStep(1)
    \/ \E t \in SupIds : SupStep(t)
    \/ \E w \in WorkerIds : WorkerStep(w)
    \/ DriverConnack
    \/ DriverDisconnect
    \/ OnMessage

\* One caller thread: supervisor and start, no stop; the broker changes its
\* mind, answers and drops the session. Every thread that can take a step
\* eventually takes one, and the broker answers a CONNECT it has received; a
\* caller is never obliged to call.
NextHeal ==
    \/ CallEnableSupervisor(1)
    \/ CallStart(1, FALSE, 0)
    \/ ConnectStep(1)
    \/ \E t \in SupIds : SupRun(t)
    \/ DriverConnack
    \/ DriverDisconnect
    \/ DriverPolicy

InitHeal == InitWith(MaxOps, {0}, BOOLEAN, 0)

FairHeal ==
    /\ WF_vars(ConnectStep(1))
    /\ \A t \in SupIds : WF_vars(SupRun(t))
    /\ WF_vars(DriverConnack)

SpecHeal == InitHeal /\ [][NextHeal]_vars /\ FairHeal

\* One caller thread and every lifecycle method; the broker accepts or not,
\* answers and drops the session; no messages.
NextLife ==
    \/ CallEnableSupervisor(1)
    \/ CallDisableSupervisor(1)
    \/ CallStart(1, FALSE, 0)
    \/ CallStop(1)
    \/ CallConnect(1, FALSE, 0)
    \/ CallDisconnect(1)
    \/ CallReconnect(1)
    \/ ConnectStep(1) \/ SupStopStep(1) \/ DisconnectInternal(1) \/ PoolStopStep(1)
    \/ \E t \in SupIds : SupStep(t)
    \/ \E w \in WorkerIds : WorkerExit(w) \/ WorkerGet(w)
    \/ DriverConnack
    \/ DriverDisconnect

InitLife == InitWith(MaxOps + 1, {0}, BOOLEAN, 0)

SpecLife == InitLife /\ [][NextLife]_vars

\* One caller thread: start, stop and enable_history; a broker that accepts
\* and delivers messages; every queue capacity. No supervisor.
NextPool ==
    \/ CallStart(1, FALSE, 0)
    \/ CallStop(1)
    \/ \E n \in 0..MaxHist : CallEnableHistory(1, n)
    \/ ConnectStep(1)
    \/ StopSupervisorThread(1)
    \/ DisconnectInternal(1)
    \/ PoolStopStep(1)
    \/ \E w \in WorkerIds : WorkerStep(w)
    \/ DriverConnack
    \/ OnMessage

InitPool == InitWith(PoolOps, 0..QueueMax, {TRUE}, MaxMsgs)

SpecPool == InitPool /\ [][NextPool]_vars

\* One caller thread: start and stop, one message, an unbounded queue. Every
\* thread that can take a step eventually takes one (a callback returns, a
\* worker gets from a non-empty queue, stop() goes on); the caller is never
\* obliged to call and the broker never obliged to send.
NextRestart ==
    \/ CallStart(1, FALSE, 0)
    \/ CallStop(1)
    \/ ConnectStep(1)
    \/ StopSupervisorThread(1)
    \/ DisconnectInternal(1)
    \/ PoolStopStep(1)
    \/ \E w \in WorkerIds : WorkerStep(w)
    \/ DriverConnack
    \/ OnMessage

InitRestart == InitWith(MaxOps, {0}, {TRUE}, FewMsgs)

FairRestart ==
    /\ WF_vars(ConnectStep(1))
    /\ WF_vars(StopSupervisorThread(1))
    /\ WF_vars(DisconnectInternal(1))
    /\ WF_vars(PoolStopStep(1))
    /\ \A w \in WorkerIds : WF_vars(WorkerStep(w))
    /\ WF_vars(DriverConnack)

SpecRestart == InitRestart /\ [][NextRestart]_vars /\ FairRestart

\* Two caller threads calling start() and enable_supervisor(), never stop();
\* the broker accepts or not, answers and drops the session.
NextRace ==
    \/ \E c \in Callers :
          \/ CallStart(c, FALSE, 0)
          \/ CallEnableSupervisor(c)
          \/ ConnectStep(c)
    \/ \E t \in SupIds : SupRun(t)
    \/ DriverConnack
    \/ DriverDisconnect

InitRace == InitWith(MaxOps, {0}, BOOLEAN, 0)

SpecRace == InitRace /\ [][NextRace]_vars

\* One caller thread calling start() and connect() with every retry setting,
\* and enable_history(); a broker that lets no connect attempt succeed: the
\* driver's connect() raises, or CONNECT is refused or left unanswered.
NextRetry ==
    \/ \E a \in RetryArgs : CallStart(1, a[1], a[2])
    \/ \E a \in RetryArgs : CallConnect(1, a[1], a[2])
    \/ \E n \in 0..MaxHist : CallEnableHistory(1, n)
    \/ ConnectStep(1)
    \/ DriverConnack

InitRetry == InitWith(MaxOps, {0}, {FALSE}, 0)

SpecRetry == InitRetry /\ [][NextRetry]_vars

\* Two caller threads: the first calls start() and connect() with every retry
\* setting, the second calls stop(); the broker accepts or not.
NextStopRetry ==
    \/ \E a \in RetryArgs : CallStart(1, a[1], a[2])
    \/ \E a \in RetryArgs : CallConnect(1, a[1], a[2])
    \/ ConnectStep(1)
    \/ CallStop(2)
    \/ StopSupervisorThread(2)
    \/ DisconnectInternal(2)
    \/ PoolStopStep(2)
    \/ \E w \in WorkerIds : WorkerExit(w) \/ WorkerGet(w)
    \/ DriverConnack

InitStopRetry == InitWith(MaxOps, {0}, BOOLEAN, 0)

SpecStopRetry == InitStopRetry /\ [][NextStopRetry]_vars

\* One caller thread: the supervisor enabled and disabled, history recording
\* enabled, start; the broker accepts or not, answers and drops the
\* session. Every thread that can take a step eventually takes
\* one; the caller is never obliged to call.
NextSupervise ==
    \/ CallEnableSupervisor(1)
    \/ CallDisableSupervisor(1)
    \/ \E n \in 1..MaxHist : CallEnableHistory(1, n)
    \/ CallStart(1, FALSE, 0)
    \/ ConnectStep(1)
    \/ SupStopStep(1)
    \/ \E t \in SupIds : SupStep(t)
    \/ DriverConnack
    \/ DriverDisconnect

InitSupervise == InitWith(MaxOps, {0}, BOOLEAN, 0)

FairSupervise ==
    /\ WF_vars(ConnectStep(1))
    /\ WF_vars(SupStopStep(1))
    /\ \A t \in SupIds : WF_vars(SupStep(t))
    /\ WF_vars(DriverConnack)

SpecSupervise == InitSupervise /\ [][NextSupervise]_vars /\ FairSupervise

\* One caller thread: history, connect and the three pub/sub operations with
\* and without auto_reconnect; the broker accepts or not and drops sessions.
NextPubSub ==
    \/ \E n \in 1..MaxHist : CallEnableHistory(1, n)
    \/ CallConnect(1, FALSE, 0)
    \/ \E kind \in PubSubKinds, auto \in BOOLEAN : CallPubSub(1, kind, auto)
    \/ DisconnectInternal(1)
    \/ ConnectStep(1)
    \/ PubSubSend(1)
    \/ DriverConnack
    \/ DriverDisconnect

InitPubSub == InitWith(MaxOps, {0}, BOOLEAN, 0)

SpecPubSub == InitPubSub /\ [][NextPubSub]_vars

\* One caller thread and the eight lifecycle and pub/sub operations; every
\* driver call may raise.
NextOps ==
    \/ \E n \in 1..MaxHist : CallEnableHistory(1, n)
    \/ CallStart(1, FALSE, 0)
    \/ CallStop(1)
    \/ \E a \in RetryArgs : CallConnect(1, a[1], a[2])
    \/ CallDisconnect(1)
    \/ CallReconnect(1)
    \/ \E kind \in PubSubKinds, auto \in BOOLEAN : CallPubSub(1, kind, auto)
    \/ ConnectStep(1)
    \/ StopSupervisorThread(1)
    \/ DisconnectInternal(1)
    \/ PoolStopStep(1)
    \/ PubSubSend(1)
    \/ \E w \in WorkerIds : WorkerExit(w) \/ WorkerGet(w)
    \/ DriverConnack
    \/ DriverDisconnect

InitOps == InitWith(MaxOps, {0}, BOOLEAN, 0)

SpecOps == InitOps /\ [][NextOps]_vars

\* The history buffer of one category: entries are appended while the caller
\* enables, disables and clears the history.
NextHistory ==
    \/ \E n \in 0..MaxHist : CallEnableHistory(1, n)
    \/ CallDisableHistory(1)
    \/ CallClearHistory(1)
    \/ AddHistoryEntry

InitHistory == InitWith(MaxOps + 1, {0}, {TRUE}, 0)

SpecHistory == InitHistory /\ [][NextHistory]_vars

\* One Backoff object of any strategy: constructed, asked for delays, reset.
NextBackoff ==
    \/ CreateBackoff
    \/ CallNextDelay
    \/ CallReset

InitBackoff == InitWith(0, {0}, {TRUE}, 0)

SpecBackoff == InitBackoff /\ [][NextBackoff]_vars

\* One caller thread: start and stop; a broker that accepts and delivers
\* messages into a queue of every capacity. Every thread that can take a step
\* eventually takes one (a callback returns, a worker that can get or leave
\* does, stop() goes on when it is not blocked); the caller is never obliged
\* to call and the broker never obliged to send.
NextShutdown ==
    \/ CallStart(1, FALSE, 0)
    \/ CallStop(1)
    \/ ConnectStep(1)
    \/ StopSupervisorThread(1)
    \/ DisconnectInternal(1)
    \/ PoolStopStep(1)
    \/ \E w \in WorkerIds : WorkerStep(w)
    \/ DriverConnack
    \/ OnMessage

InitShutdown == InitWith(PoolOps, 0..QueueMax, {TRUE}, MaxMsgs)

FairShutdown ==
    /\ WF_vars(ConnectStep(1))
    /\ WF_vars(StopSupervisorThread(1))
    /\ WF_vars(DisconnectInternal(1))
    /\ WF_vars(PoolStopStep(1))
    /\ \A w \in WorkerIds : WF_vars(WorkerStep(w))
    /\ WF_vars(DriverConnack)

SpecShutdown == InitShutdown /\ [][NextShutdown]_vars /\ FairShutdown

\* One caller thread: start and stop; a broker that accepts and delivers
\* messages into an unbounded queue; the workers with every step of their
\* loop, the expiry of the timed get() included. No supervisor.
NextWorker ==
    \/ CallStart(1, FALSE, 0)
    \/ CallStop(1)
    \/ ConnectStep(1)
    \/ StopSupervisorThread(1)
    \/ DisconnectInternal(1)
    \/ PoolStopStep(1)
    \/ \E w \in WorkerIds : WorkerLoop(w)
    \/ DriverConnack
    \/ OnMessage

InitWorker == InitWith(PoolOps, {0}, {TRUE}, FewMsgs)

SpecWorker == InitWorker /\ [][NextWorker]_vars

InitStop == InitWith(MaxOps, {0, QueueMax}, BOOLEAN, FewMsgs)

SpecStop == InitStop /\ [][NextStop]_vars

\* ================================================================ claims
\* stop() has returned to caller c after stopping a running client.
StopReturned(c) ==
    /\ pc[c] = "done"
    /\ op[c].name = "stop"
    /\ res[c].message # "Already stopped"

AliveWorkers == {w \in WorkerIds : WkAlive(w)}
AliveSupervisors == {t \in SupIds : SupAlive(t)}

NeedsHealing == running /\ supEnabled /\ ~isConnected

\* C2: from every state in which the client is running with the supervisor
\* enabled and not connected, a supervisor thread eventually is inside a
\* transport reconnect attempt (unless the client got connected meanwhile),
\* and if the broker ends up accepting connections the client eventually is
\* connected again.
C2_SupervisorHeals ==
    /\ NeedsHealing ~> (isConnected \/ \E t \in SupIds : sup[t] = "call")
    /\ (<>[]drvAccept) => (NeedsHealing ~> isConnected)


\* C3: at any time at most one supervisor loop thread is executing, after any
\* sequence of start(), stop(), enable_supervisor() and disable_supervisor(),
\* also when the join on a previous supervisor thread timed out.
C3_AtMostOneSupervisor == Cardinality(AliveSupervisors) <= 1

\* Threads inside a connect()/reconnect() call on the driver.
ConnectsInFlight ==
    Cardinality({c \in Callers : pc[c] = "ci_call"})
        + Cardinality({t \in SupIds : sup[t] = "call"})

\* C4: at any time at most one thread is inside a transport connect attempt:
\* the driver connect()/reconnect() calls of the caller threads and of the
\* supervisor never overlap.
C4_AtMostOneConnectInFlight == ConnectsInFlight <= 1

\* Caller c returns from stop() on a running client or from disconnect() in
\* this step, or finishes the disconnect step of reconnect().
DisconnectDone(c) ==
    \/ /\ pc[c] # "done" /\ pc'[c] = "done"
       /\ op[c].name \in {"stop", "disconnect"}
    \/ /\ pc[c] = "disc" /\ pc'[c] # "disc"
       /\ op[c].name = "reconnect"

\* C5: is_connected is True only while the driver has an active session, and
\* it is False when disconnect(), the disconnect step of reconnect() or stop()
\* has returned, also when a driver call raised.
C5_ConnectedOnlyWithSession ==
    /\ [](isConnected => drv = "up")
    /\ [][\A c \in Callers : DisconnectDone(c) => ~isConnected']_vars


\* The driver's loop thread calls _on_message in this step.
Arrival == nextMsg' = nextMsg + 1

\* The driver has a message to hand to _on_message.
Delivers == loopOn /\ drv = "up" /\ nextMsg <= msgLimit

\* Message m is in the callback queue.
Queued(m) == \E i \in 1..Len(queue) : queue[i] = m

\* Entries x in the errors history.
CountErr(x) == Cardinality({i \in 1..Len(errHist) : errHist[i] = x})

\* C6 as stated: in every state the callback queue holds at most
\* callback_queue_max_size items.
C6_QueueNeverExceedsMaxSize == Len(queue) <= maxsize

\* C6 as amended: with callback_queue_max_size > 0 the queue never holds more
\* than that many items (tasks and poison pills together); _on_message is
\* never blocked, and on a full queue it leaves the queue as it is and drops
\* the incoming message; with callback_queue_max_size = 0 the queue is
\* unbounded and nothing is ever dropped.
C6_PositiveMaxSizeBoundsQueue ==
    /\ [](maxsize > 0 => Len(queue) <= maxsize)
    /\ [](maxsize = 0 => dropped = 0)
    /\ [](Delivers => ENABLED OnMessage)
    /\ [][Arrival =>
            IF QueueFull THEN queue' = queue /\ dropped' = dropped + 1
            ELSE queue' = Append(queue, nextMsg) /\ dropped' = dropped]_vars

\* C6 witness: a bounded queue is full and a message has been dropped.
C6_Witness == maxsize > 0 /\ Len(queue) = maxsize /\ dropped > 0

NoTaskLost ==
    /\ Cardinality({m \in 1..(nextMsg - 1) : Queued(m) \/ invoked[m] > 0}) + dropped
           = nextMsg - 1
    /\ \A m \in 1..MaxMsgs : ~(Queued(m) /\ invoked[m] > 0)

\* The tasks in the queue are in arrival order.
QueueInArrivalOrder ==
    \A i, j \in 1..Len(queue) :
        i < j /\ queue[i] # Pill /\ queue[j] # Pill => queue[i] < queue[j]

C8_AcceptedTaskInvokedExactlyOnce ==
    /\ [](\A m \in 1..MaxMsgs : invoked[m] <= 1)
    /\ [](\A v, w \in WorkerIds : v # w /\ wkTask[v] # 0 => wkTask[v] # wkTask[w])
    /\ \A m \in 1..MaxMsgs : Queued(m) ~> (invoked[m] = 1 \/ ~workerRunning)


\* Threads ever started.
WorkersStarted == {w \in WorkerIds : wk[w] # "none"}
SupervisorsStarted == {t \in SupIds : sup[t] # "none"}

\* Caller c's start() found the client stopped and performs, or has
\* performed, the start-up.
StartedUp(c) ==
    /\ op[c].name = "start"
    /\ pc[c] # "idle"
    /\ ~(pc[c] = "done" /\ res[c].message = "Already running")

\* C9: a start() call on a running client returns ok=True "Already running",
\* makes no transport call and starts no worker or supervisor thread; when
\* start() calls race, one of them performs the start-up: the workers are
\* started once and at most one caller goes through the connect.
C9_StartIsIdempotent ==
    /\ [][\A c \in Callers :
            CallStart(c, FALSE, 0) /\ running =>
                /\ res'[c] = MqttResult(TRUE, "Already running")
                /\ pc'[c] = "done" /\ calls'[c] = 0
                /\ UNCHANGED <<drv, loopOn, wk, workers, sup, supThread>>]_vars
    /\ [](Cardinality({c \in Callers : StartedUp(c)}) <= 1)
    /\ [](Cardinality(WorkersStarted) = IF running THEN WorkerCount ELSE 0)
    /\ [](Cardinality(SupervisorsStarted) <= 1)
    /\ [](\A c \in Callers :
            pc[c] = "done" /\ op[c].name = "start" /\ ~StartedUp(c) => calls[c] = 0)

\* C9 witness: both callers have called start(); one performed the start-up,
\* the other was told "Already running" while the first was still connecting.
C9_Witness ==
    /\ pc[1] = "ci_wait" /\ StartedUp(1)
    /\ pc[2] = "done" /\ op[2].name = "start"
    /\ res[2] = MqttResult(TRUE, "Already running")
    /\ Cardinality(WorkersStarted) = WorkerCount

\* start(retry=True, max_retries=N) with N > 0 has returned to caller c after
\* going through the connect.
RetriedStartReturned(c) ==
    /\ pc[c] = "done" /\ op[c].name = "start"
    /\ op[c].retry /\ op[c].max > 0
    /\ res[c].message # "Already running"

\* C10: for N > 0, start(retry=True, max_retries=N) against a driver whose
\* every connect attempt fails makes exactly N transport connect calls (never
\* more while it runs) and returns ok=False, "Max retries exceeded".
C10_ExactlyMaxRetriesConnectCalls ==
    \A c \in Callers :
        /\ op[c].name = "start" /\ op[c].retry /\ op[c].max > 0
               => calls[c] <= op[c].max
        /\ RetriedStartReturned(c) =>
               /\ calls[c] = op[c].max
               /\ res[c] = MqttResult(FALSE, "Max retries exceeded")

\* C10 witness: start(retry=True, max_retries=MaxRetries) has returned after
\* MaxRetries connect calls, one of which raised.
C10_Witness ==
    /\ RetriedStartReturned(1)
    /\ op[1].max = MaxRetries /\ calls[1] = MaxRetries
    /\ ~isConnected /\ running


\* C11: a retry loop of start(retry=True) or connect(retry=True) that is at
\* its sleep point when stop() has cleared the running flag makes no further
\* transport connect attempt: it leaves the sleep by returning ok=False.
C11_StopInterruptsRetryLoop ==
    [][\A c \in Callers :
         pc[c] = "ci_sleep" /\ ~running /\ pc'[c] # "ci_sleep" =>
             pc'[c] = "done" /\ ~res'[c].ok]_vars


\* stop(), called by c on a running client, is past its disconnect step.
AfterStopDisconnect(c) ==
    /\ op[c].name = "stop"
    /\ pc[c] \in {"stop_workers", "stop_pool", "done"}
    /\ res[c].message # "Already stopped"

\* C12: within stop() the supervisor loop has exited before the transport
\* disconnect is issued, no supervisor reconnect attempt starts or completes
\* after stop()'s disconnect, and the callback workers are stopped only after
\* the disconnect step has finished.
C12_StopOrdersSupervisorDisconnectPool ==
    /\ [](\A c \in Callers :
            op[c].name = "stop" /\ pc[c] = "disc" => AliveSupervisors = {})
    /\ [][\A c \in Callers, t \in SupIds :
            AfterStopDisconnect(c) => ((sup[t] = "call") <=> (sup'[t] = "call"))]_vars
    /\ [][workerRunning /\ ~workerRunning' =>
            \E c \in Callers : op[c].name = "stop" /\ pc[c] = "stop_workers"]_vars


\* start() has returned to caller c after performing the start-up.
StartReturned(c) ==
    /\ pc[c] = "done" /\ op[c].name = "start"
    /\ res[c].message # "Already running"

\* C13: with the supervisor enabled before start(), no supervisor thread is
\* started while start() is in its initial connect sequence, and a supervisor
\* thread is running after start() has returned, whether the connect
\* succeeded or failed.
C13_SupervisorArmedAfterStart ==
    \A c \in Callers :
        /\ StartedUp(c) /\ pc[c] # "done" => SupervisorsStarted = {}
        /\ StartReturned(c) /\ supEnabled => SupAlive(supThread)


\* Supervisor thread t comes out of a reconnect() that raised, in this step.
ReconnectFailed(t) == sup[t] = "call" /\ sup'[t] # "call" /\ boAttempt' > 0

SupervisorResetsBackoff ==
    /\ boAttempt # 0 /\ boAttempt' = 0
    /\ \E t \in SupIds : sup'[t] # sup[t]

\* C15: the supervisor resets its backoff attempt counter only at a step where
\* the client is, or has just become, connected, and between two resets the
\* counter grows by one per failed reconnect attempt.
C15_BackoffResetOnlyWhenConnected ==
    /\ [][SupervisorResetsBackoff => isConnected']_vars
    /\ [][\A t \in SupIds :
            ReconnectFailed(t) => boAttempt' = Min(boAttempt + 1, MaxAttempt)]_vars

\* ------------------------------------------------------------- C16
\* A caller enters publish(), subscribe() or unsubscribe() in this step.
EntersPubSub(c) ==
    /\ pc[c] \in {"idle", "done"}
    /\ budget' = budget - 1
    /\ op'[c].name \in PubSubKinds

\* C16: publish(), subscribe() and unsubscribe() called on a disconnected
\* client with auto_reconnect=False return ok=False, "Not connected", at once:
\* no driver call is made (no publish/subscribe/unsubscribe, no disconnect, no
\* connect) and connection state, driver state and history stay as they were.
C16_NotConnectedReturnsWithoutEffect ==
    [][\A c \in Callers :
        EntersPubSub(c) /\ ~isConnected /\ ~op'[c].auto =>
            /\ pc'[c] = "done"
            /\ res'[c] = MqttResult(FALSE, "Not connected")
            /\ ~sent'[c] /\ ~recorded'[c]
            /\ calls'[c] = 0
            /\ UNCHANGED <<clientVars, drvVars, histVars, lastMid>>]_vars

\* subscribe() was refused on a disconnected client with history enabled.
C16_Witness ==
    /\ pc[1] = "done" /\ op[1].name = "subscribe" /\ ~op[1].auto
    /\ res[1] = MqttResult(FALSE, "Not connected")
    /\ recordHistory /\ ~isConnected

\* ------------------------------------------------------------- C17
\* A pub/sub operation with auto_reconnect=True has returned after it found
\* the client disconnected (it made a driver connect call).
AutoReconnected(c) ==
    /\ pc[c] = "done" /\ op[c].name \in PubSubKinds /\ op[c].auto
    /\ calls[c] > 0

\* C17 as stated: a disconnected operation with auto_reconnect=True whose
\* reconnect succeeded (the driver call was made) returns ok=True with the
\* driver's message id; one whose reconnect failed returns "Auto-reconnect
\* failed" without the driver call.
C17_ReconnectedOperationReturnsOk ==
    \A c \in Callers :
        AutoReconnected(c) =>
            IF sent[c]
            THEN res[c] = MqttResultMid(lastMid)
            ELSE res[c] = MqttResult(FALSE, "Auto-reconnect failed")

\* C17, amended: the operation starts with reconnect() (its disconnect with
\* stop_loop=True, then one connect attempt); the driver's publish, subscribe
\* or unsubscribe is called only after that connect attempt has seen the
\* client connected; the result is then the driver's verdict: ok=True with
\* the message id the driver issued, or ok=False with the failure; a failed
\* reconnect returns "Auto-reconnect failed" without the driver call.
C17_ReconnectThenDriverVerdict ==
    /\ [][\A c \in Callers :
            EntersPubSub(c) /\ ~isConnected /\ op'[c].auto =>
                pc'[c] = "disc" /\ ~sent'[c] /\ calls'[c] = 0]_vars
    /\ [][\A c \in Callers :
            pc[c] \notin {"idle", "done", "send"} /\ pc'[c] = "send" =>
                pc[c] = "ci_wait" /\ connectEvent /\ isConnected /\ calls[c] = 1]_vars
    /\ [](\A c \in Callers :
            AutoReconnected(c) =>
                IF sent[c]
                THEN \/ res[c] = MqttResultMid(lastMid) /\ lastMid > 0
                     \/ res[c] = MqttResult(FALSE, FailedMessage(op[c].name))
                     \/ res[c] = MqttResult(FALSE, "Driver error")
                ELSE res[c] = MqttResult(FALSE, "Auto-reconnect failed"))

\* publish() with auto_reconnect=True reconnected a dropped client and
\* returned the driver's message id.
C17_Witness ==
    /\ AutoReconnected(1) /\ op[1].name = "publish" /\ sent[1]
    /\ res[1] = MqttResultMid(lastMid) /\ lastMid > 0

WorkerCallbackFault ==
    /\ \E w \in WorkerIds : wk[w] = "call" /\ wk'[w] # "call"
    /\ errCalls' # errCalls

\* A connect or disconnect callback raised on the transport thread in this
\* step and the errors history took the entry.
TransportCallbackFault ==
    /\ drv' # drv
    /\ errHist' # errHist
    /\ errHist'[Len(errHist')] \in {"on_connect", "on_disconnect"}

\* C19: an exception raised by a user callback is recorded in the errors
\* history and forwarded to the error callback, whether a worker ran the
\* callback or the transport thread did, and the worker goes back to its queue.
C19_CallbackFaultRecordedAndForwarded ==
    /\ [][WorkerCallbackFault =>
            /\ recordHistory =>
                   errHist' = DequeAppend(errHist, historyMaxSize, "callback_worker")
            /\ \A w \in WorkerIds : wk[w] = "call" /\ wk'[w] # "call" => wk'[w] = "idle"]_vars
    /\ [][TransportCallbackFault =>
            errCalls' = Min(errCalls + 1, MaxErrCalls)]_vars

\* ------------------------------------------------------------- C20
\* The lifecycle and pub/sub operations.
Operations == {"start", "stop", "connect", "disconnect", "reconnect"} \cup PubSubKinds

\* C20: with history enabled, an operation that has returned ok=False has
\* added at least one history entry between its call and its return.
C20_FailedOperationRecorded ==
    \A c \in Callers :
        pc[c] = "done" /\ op[c].name \in Operations /\ recordHistory /\ ~res[c].ok
            => recorded[c]

\* ------------------------------------------------------------- C21
\* An entry was appended to the history buffer in this step.
Inserted == histIns' = histIns + 1

\* The entries a buffer holds.
Entries(d) == {d[i] : i \in 1..Len(d)}

\* C21 as stated: the buffer never exceeds max_size, and every insertion
\* leaves the newest entry in the buffer, whatever max_size is.
C21_NewestEntryAlwaysKept ==
    /\ [](Len(errHist) <= historyMaxSize)
    /\ [][Inserted => histIns' \in Entries(errHist')]_vars

\* C21, amended: the buffer never holds more than max_size entries; with
\* max_size >= 1 an insertion into a full buffer evicts exactly the oldest
\* entry and appends the new one, an insertion into a buffer with room only
\* appends it; with max_size = 0 the buffer stays empty.
C21_BoundedBufferEvictsOldest ==
    /\ [](Len(errHist) <= historyMaxSize)
    /\ [][Inserted =>
            IF historyMaxSize = 0 THEN errHist' = <<>>
            ELSE IF Len(errHist) = historyMaxSize
            THEN /\ errHist' = Append(Tail(errHist), histIns')
                 /\ Head(errHist) \notin Entries(errHist')
            ELSE errHist' = Append(errHist, histIns')]_vars

\* max_size + 1 entries went into a buffer of max_size >= 1: the first is
\* gone, the last is there.
C21_Witness ==
    /\ recordHistory /\ historyMaxSize >= 1
    /\ histIns = historyMaxSize + 1
    /\ Len(errHist) = historyMaxSize
    /\ 1 \notin Entries(errHist)
    /\ histIns \in Entries(errHist)

\* ------------------------------------------------------------- C22
\* C22: with 0 <= min_delay <= max_delay, every next_delay() call, however
\* many came before it, returns a value, and the value lies in [0, max_delay].
C22_EveryDelayWithinBounds ==
    bo # NoBackoff /\ bo.min_delay <= bo.max_delay =>
        /\ ~boRaised
        /\ bo.attempt > 0 => 0 <= delay /\ delay <= bo.max_delay

\* ------------------------------------------------------------- C23
\* The keyword argument an object was constructed with.
KeywordOf(b) ==
    CASE b.strategy = "linear" -> b.step
      [] b.strategy = "polynomial" -> b.exponent
      [] b.strategy = "exponential" -> b.base
      [] OTHER -> 0

\* The object as its constructor made it.
Fresh(b) == Backoff(b.strategy, b.min_delay, b.max_delay, b.jitter, KeywordOf(b))

\* C23: reset() after any number of next_delay() calls leaves the object in
\* the state its constructor made (attempt 0, Fibonacci pair (0, 1)), so the
\* un-jittered delays start again from the zero-attempt value
\* min(min_delay, max_delay); resetting a fresh object changes nothing; the
\* attempt counter only ever goes up by one or back to 0.
C23_ResetRestoresFreshState ==
    /\ [][bo # NoBackoff /\ bo.attempt > 0 /\ bo'.attempt = 0 => bo' = Fresh(bo)]_vars
    /\ [][bo # NoBackoff /\ bo.attempt = 0 /\ bo'.attempt = 1
             /\ ~bo.jitter /\ bo.strategy # "random" =>
                delay' = Min(bo.min_delay, bo.max_delay)]_vars
    /\ [](bo # NoBackoff /\ bo.attempt = 0 => bo = Fresh(bo) /\ Reset(bo) = bo)
    /\ [][bo # NoBackoff /\ bo'.attempt # bo.attempt =>
            bo'.attempt = bo.attempt + 1 \/ bo'.attempt = 0]_vars

\* A Fibonacci object whose delays had grown is fresh again after reset().
C23_Witness ==
    /\ bo # NoBackoff /\ bo.strategy = "fibonacci" /\ ~bo.jitter
    /\ delay > bo.min_delay
    /\ bo.attempt = 0 /\ bo.fib_prev = 0 /\ bo.fib_curr = 1

\* ------------------------------------------------------------- C24
\* next_delay() returned a value in this step and an earlier call since the
\* construction or the last reset() had returned one.
SuccessiveCalls == bo # NoBackoff /\ bo.attempt > 0 /\ bo'.attempt = bo.attempt + 1

\* C24: with jitter disabled, each value next_delay() returns is at least the
\* value the call before it returned, for the five deterministic strategies;
\* the Random strategy draws from [min_delay, max_delay] whatever the attempt.
C24_DelaysNonDecreasing ==
    /\ [][SuccessiveCalls /\ ~bo.jitter /\ bo.strategy # "random" => delay' >= delay]_vars
    /\ [](bo # NoBackoff /\ bo.strategy = "random" /\ bo.min_delay <= bo.max_delay =>
            /\ CalculateDelay(bo) = bo.min_delay..bo.max_delay
            /\ bo.attempt > 0 /\ ~bo.jitter =>
                   bo.min_delay <= delay /\ delay <= bo.max_delay)

\* An exponential backoff without jitter has grown and has reached max_delay.
C24_Witness ==
    /\ bo # NoBackoff /\ bo.strategy = "exponential" /\ ~bo.jitter
    /\ bo.base > 1 /\ bo.min_delay > 0 /\ bo.min_delay < bo.max_delay
    /\ bo.attempt >= 3 /\ delay = bo.max_delay

\* ------------------------------------------------------------- C25
\* f(k) of the claim, for the strategies with a closed form.
ClosedForm(b, k) ==
    CASE b.strategy = "constant" -> b.min_delay
      [] b.strategy = "linear" -> b.min_delay + k * b.step
      [] b.strategy = "polynomial" -> b.min_delay * (k + 1) ^ b.exponent
      [] OTHER -> b.min_delay * b.base ^ k

\* The object is of a strategy with a closed form and has no jitter.
HasClosedForm ==
    /\ bo # NoBackoff /\ ~bo.jitter
    /\ bo.strategy \in {"constant", "linear", "polynomial", "exponential"}

\* C25: without jitter, the k-th next_delay() call after construction or
\* reset() (k = 0, 1, 2, ...) returns min(f(k), max_delay), and attempt goes
\* from k to k + 1 with the call.
C25_KthDelayIsClampedClosedForm ==
    /\ [](HasClosedForm => ~boRaised)
    /\ [][HasClosedForm /\ bo'.attempt # bo.attempt /\ bo'.attempt # 0 =>
            /\ bo'.attempt = bo.attempt + 1
            /\ delay' = Min(ClosedForm(bo, bo.attempt), bo.max_delay)]_vars

\* ------------------------------------------------------------- C26
\* The k-th Fibonacci multiplier: 1, 1, 2, 3, 5, 8, ...
RECURSIVE Fib(_)
Fib(k) == IF k <= 1 THEN 1 ELSE Fib(k - 1) + Fib(k - 2)

\* The object is a FibonacciBackoff without jitter.
IsFibonacci == bo # NoBackoff /\ ~bo.jitter /\ bo.strategy = "fibonacci"

\* C26: without jitter, the k-th next_delay() call of a FibonacciBackoff
\* returns min(min_delay * c_k, max_delay) with c_k = 1, 1, 2, 3, 5, 8, ...,
\* and the pair advances once with every call, clamped or not.
C26_KthDelayIsClampedFibonacci ==
    /\ [](IsFibonacci => ~boRaised)
    /\ [](IsFibonacci =>
            bo.fib_curr = Fib(bo.attempt) /\
            bo.fib_prev = (IF bo.attempt = 0 THEN 0 ELSE Fib(bo.attempt - 1)))
    /\ [][IsFibonacci /\ bo'.attempt # bo.attempt /\ bo'.attempt # 0 =>
            /\ bo'.attempt = bo.attempt + 1
            /\ delay' = Min(bo.min_delay * Fib(bo.attempt), bo.max_delay)]_vars

\* ------------------------------------------------------------- C27
\* d of the claim for a deterministic strategy: the computed delay, clamped.
Clamped(b) == Min(CHOOSE raw \in CalculateDelay(b) : TRUE, b.max_delay)

\* next_delay() returned a value in this step.
DelayReturned == bo # NoBackoff /\ bo'.attempt = bo.attempt + 1

\* C27: with jitter enabled and a clamped delay d > 0, next_delay() returns a
\* whole number of seconds in [0, d]; with jitter disabled, or with d = 0, it
\* returns d itself; the value changes only in a call, which advances attempt
\* by one. For the Random strategy d is itself a draw from
\* [min_delay, max_delay].
C27_JitterDrawsWholeSecondsUpToDelay ==
    /\ [][DelayReturned /\ bo.strategy # "random" =>
            IF bo.jitter /\ Clamped(bo) > 0
            THEN 0 <= delay' /\ delay' <= Clamped(bo) /\ delay' % Unit = 0
            ELSE delay' = Clamped(bo)]_vars
    /\ [][DelayReturned /\ bo.strategy = "random" =>
            \E raw \in CalculateDelay(bo) :
                LET d == Min(raw, bo.max_delay)
                IN  IF bo.jitter /\ d > 0
                    THEN 0 <= delay' /\ delay' <= d /\ delay' % Unit = 0
                    ELSE delay' = d]_vars
    /\ [][delay' # delay => DelayReturned]_vars

\* A constant delay of one second and a half with jitter: the draw was one
\* second, the largest whole number of seconds below it.
C27_Witness ==
    /\ bo # NoBackoff /\ bo.strategy = "constant" /\ bo.jitter
    /\ bo.min_delay = Unit + 1 /\ bo.max_delay >= bo.min_delay
    /\ bo.attempt > 0 /\ delay = Unit

\* ------------------------------------------------------------- C28
\* C28: when stop() has returned, every task that was in the callback queue
\* when stop() was called has been taken and invoked by a worker, and the
\* queue is empty.
C28_StopDrainsPool ==
    \A c \in Callers :
        StopReturned(c) =>
            /\ \A m \in atStop : invoked[m] >= 1
            /\ queue = <<>>

\* ------------------------------------------------------------- C29
\* Caller c is inside reconnect().
InReconnect(c) == op[c].name = "reconnect" /\ pc[c] \notin {"idle", "done"}

\* C29: reconnect() starts its cycle whatever the connection state and the
\* running flag are; its disconnect step leaves the driver without a session
\* and with the network loop stopped before the connect step begins; the
\* connect step starts the loop again (or fails and ends the call); the call
\* returns ok=True only when the connect event is set and the client is
\* connected.
C29_ReconnectPerformsFullCycle ==
    [][\A c \in Callers :
        /\ pc[c] \in {"idle", "done"} /\ budget' = budget - 1 /\ op'[c].name = "reconnect"
               => pc'[c] = "disc"
        /\ InReconnect(c) /\ pc[c] = "disc" /\ pc'[c] # "disc"
               => pc'[c] = "ci_begin" /\ drv' = "idle" /\ ~loopOn'
        /\ InReconnect(c) /\ pc[c] = "ci_begin" /\ pc'[c] # "ci_begin"
               => pc'[c] = "ci_call"
        /\ InReconnect(c) /\ pc[c] = "ci_call" /\ pc'[c] # "ci_call"
               => \/ pc'[c] = "ci_wait" /\ drv' = "pending" /\ loopOn'
                  \/ pc'[c] = "done" /\ ~res'[c].ok
        /\ InReconnect(c) /\ pc'[c] = "done" /\ res'[c].ok
               => pc[c] = "ci_wait" /\ connectEvent /\ isConnected]_vars

\* ------------------------------------------------------------- C30
\* disconnect() has disconnected a running client with the supervisor
\* enabled, and caller c has called nothing since.
UserDisconnected(c) ==
    /\ pc[c] = "done" /\ op[c].name = "disconnect"
    /\ res[c] = MqttResult(TRUE, "Disconnected")
    /\ running /\ supEnabled

\* C30: after a user's disconnect() the supervisor issues no driver
\* reconnect, and the client stays disconnected as long as the user calls
\* nothing.
C30_SupervisorRespectsUserDisconnect ==
    [][\A c \in Callers :
        UserDisconnected(c) =>
            /\ \A t \in SupIds : sup[t] # "call" => sup'[t] # "call"
            /\ UserDisconnected(c)' => ~isConnected']_vars

\* ------------------------------------------------------------- C31
\* Caller c's connect sequence calls loop_start() in this step: the driver's
\* connect() has returned and the caller goes on to the wait.
LoopStartCalled(c) == pc[c] = "ci_call" /\ pc'[c] = "ci_wait"

\* C31: loop_start() is called only from the connect sequence and only while
\* no network loop is started: a supervisor reconnect leaves the loop as it
\* is, the loop becomes started only in a connect sequence, and no
\* loop_start() is issued on a started loop.
C31_LoopStartedOncePerLoop ==
    /\ [][\A t \in SupIds : sup[t] = "call" /\ sup'[t] # "call" => loopOn' = loopOn]_vars
    /\ [][~loopOn /\ loopOn' => \E c \in Callers : LoopStartCalled(c)]_vars
    /\ [][\A c \in Callers : LoopStartCalled(c) => ~loopOn]_vars

\* ------------------------------------------------------------- C32
\* Caller c is inside stop().
InStop(c) == op[c].name = "stop" /\ pc[c] \notin {"idle", "done"}

\* C32: every stop() call eventually returns, whatever the workers are doing
\* and however full the callback queue is when the sentinels are enqueued.
C32_StopEventuallyReturns ==
    \A c \in Callers : InStop(c) ~> pc[c] = "done"

\* ------------------------------------------------------------- C33
\* C33: at any time at most callback_worker_count callback worker threads are
\* alive, after any sequence of start() and stop() calls.
C33_AtMostWorkerCountWorkers == Cardinality(AliveWorkers) <= WorkerCount

\* ------------------------------------------------------------- C34
\* C34: when stop() has returned the queue holds no sentinel, and a worker
\* ends only while the pool is being stopped: none ends while the pool's
\* running flag is set.
C34_NoStaleSentinel ==
    /\ [](\A c \in Callers : StopReturned(c) => ~Queued(Pill))
    /\ [][\A w \in WorkerIds : WkAlive(w) /\ ~WkAlive(w)' => ~workerRunning]_vars

\* ------------------------------------------------------------- C35
\* No caller is inside a public method.
AtRest == \A c \in Callers : pc[c] \in {"idle", "done"}

\* C35: whenever the client is running and the lifecycle calls have returned,
\* the callback worker pool has been started: its flag is set and it has
\* live workers to deliver the queued messages.
C35_RunningClientHasWorkerPool ==
    running /\ AtRest => workerRunning /\ AliveWorkers # {}

\* ------------------------------------------------------------- C36
\* The callback of a task returns or raises in this step.
UserCallbackEnds == \E w \in WorkerIds : wk[w] = "call" /\ wk'[w] = "idle"

\* C36: a callback worker invokes the error callback only in the step in
\* which a user callback it executed raised; a worker whose timed get()
\* expires goes round without invoking it. (No supervisor runs here, so the
\* workers are the only callers of the error callback.)
C36_ErrorCallbackOnlyForCallbackFault ==
    [][errCalls' # errCalls => UserCallbackEnds]_vars

\* ------------------------------------------------------------- C37
\* Caller c enters the public method called name in this step.
Calls(c, name) ==
    /\ pc[c] \in {"idle", "done"}
    /\ budget' = budget - 1
    /\ op'[c].name = name

\* The call returns ok=True with the given message in the step in which it
\* was made: no driver call, no thread started, stopped or signalled, and the
\* client's flags, its queue and its thread handles as they were.
ReturnsAtOnce(c, message) ==
    /\ pc'[c] = "done"
    /\ res'[c] = MqttResult(TRUE, message)
    /\ calls'[c] = 0 /\ ~sent'[c]
    /\ UNCHANGED <<clientVars, supVars, poolVars, drvVars>>

\* C37: connect() on a connected client, disconnect() on a client that is not
\* connected and stop() on a client that is not running return ok=True at
\* once, without any driver call, without starting or stopping a thread and
\* with is_connected and is_running unchanged.
C37_RedundantCallsHaveNoEffect ==
    [][\A c \in Callers :
        /\ Calls(c, "connect") /\ isConnected => ReturnsAtOnce(c, "Already connected")
        /\ Calls(c, "disconnect") /\ ~isConnected => ReturnsAtOnce(c, "Not connected")
        /\ Calls(c, "stop") /\ ~running => ReturnsAtOnce(c, "Already stopped")]_vars

\* connect() on a started, connected client has returned "Already connected"
\* and the client is as start() left it.
C37_Witness ==
    /\ pc[1] = "done" /\ op[1].name = "connect"
    /\ res[1] = MqttResult(TRUE, "Already connected")
    /\ isConnected /\ running /\ drv = "up" /\ loopOn
    /\ Cardinality(AliveWorkers) = WorkerCount

\* ------------------------------------------------------------- C38
\* Buffer e holds the newest k entries of buffer d, in d's order.
NewestOf(e, d, k) ==
    /\ Len(e) = k
    /\ \A i \in 1..k : e[i] = d[Len(d) - k + i]

\* C38: enable_history(max_size) with a capacity other than the current one
\* leaves in the buffer the newest min(length, max_size) entries in their
\* order; disable_history() leaves the buffer as it is; while recording is
\* disabled the buffer changes only by clear_history() or by the
\* enable_history() that ends the disabled period, never by a recording.
C38_ResizeKeepsNewestDisabledKeepsAll ==
    /\ [][Calls(1, "enable_history") /\ historyMaxSize' # historyMaxSize =>
            NewestOf(errHist', errHist, Min(Len(errHist), historyMaxSize'))]_vars
    /\ [][Calls(1, "disable_history") => errHist' = errHist /\ ~recordHistory']_vars
    /\ [][~recordHistory /\ errHist' # errHist =>
            Calls(1, "clear_history") \/ Calls(1, "enable_history")]_vars
    /\ [][~recordHistory /\ ~Calls(1, "enable_history") => histIns' = histIns]_vars

\* Two entries were recorded at capacity MaxHist and enable_history(1)
\* discarded the older one.
C38_Witness ==
    /\ pc[1] = "done" /\ op[1].name = "enable_history"
    /\ historyMaxSize = 1 /\ histCut = 1
    /\ errHist = <<2>> /\ histIns = 2

====
